---- MODULE Spec2Model ----
(***************************************************************************)
(* State-machine model of the virtual roaster driver                       *)
(* (src/src/drivers/virtual_driver/index.ts) and of its retry policy       *)
(* (src/src/drivers/common/abstractDriver.ts).                             *)
(*                                                                         *)
(* JavaScript runs one macrotask at a time and drains the microtask queue  *)
(* before the next one.  Every await in the driver awaits a promise that   *)
(* is already settled (createConnection settles inside its executor,      *)
(* changeBurnerLevel / changeBurnerLevelTo / startUpdateCycle contain no   *)
(* timer), so whatever a timer callback starts (a sampling tick, a         *)
(* reconnect attempt) runs to completion before any other timer or caller *)
(* gets control: each is one atomic action here.  disconnect() is         *)
(* synchronous, and command() writes only fields that nothing else writes *)
(* before the next macrotask: each is one action too.                      *)
(*                                                                         *)
(* connect() called by the application is two steps.  The call draws the   *)
(* random number (createConnection's executor runs synchronously) and      *)
(* `await createConnection` (index.ts 179) hands control back to the      *)
(* caller; what follows the await (index.ts 182-184 or 187-195) runs in a  *)
(* microtask, after the caller's remaining synchronous calls and before    *)
(* any timer callback.  pendingAttempts holds the attempts between the two *)
(* steps, in call order.                                                   *)
(*                                                                         *)
(* moveBurnerLevel (index.ts 244-262) is the only code that writes the     *)
(* burner level's value, and nothing in the repository calls it: it is    *)
(* modelled by moveBurnerLevelStep below, which no action uses.            *)
(*                                                                         *)
(* Numbers: value, targetValue and previousValue are the integers of the   *)
(* source (the driver never produces a fraction since moveBurnerLevel does *)
(* not run).  0.01 * value in the convergence test is compared after       *)
(* multiplying both sides by 100.  Math.random() is modelled in hundredths *)
(* (a draw r stands for r/100), as is connectionRejectionPercentage/100.   *)
(***************************************************************************)
EXTENDS Integers, FiniteSets, Sequences, TLC

(***************************************************************************)
(* Bounds of the model.                                                    *)
(***************************************************************************)
\* largest maxReconnectionAttempts the parameters are drawn from
MaxReconnectionAttemptsBound == 2
\* largest maxNumberOfRetries the parameters are drawn from
MaxNumberOfRetriesBound == 1
\* most setTimeout(connect) callbacks pending at once (bounds the number of
\* connect() calls the application makes while earlier chains still run)
MaxPendingReconnects == 2
\* most connect() calls the application makes before their awaits resume
MaxPendingAttempts == 1
\* most setInterval timers left running without a handle
MaxOrphanIntervals == 1

\* failedConnections and retriesCounter are unbounded in the code (unlimited
\* reconnection, unlimited retries): the guards stop them past every value
\* the limited configurations can reach.
FailedConnectionsCap == MaxReconnectionAttemptsBound + 1
RetriesCounterCap == MaxNumberOfRetriesBound + 2

(***************************************************************************)
(* Inputs.                                                                 *)
(***************************************************************************)
\* supportedVerbs, index.ts 72
SupportedVerbs == {"set_to", "take_control", "increase", "decrease"}
\* the verbs changeBurnerLevel has a case for, index.ts 222, 227
HandledVerbs == {"set_to", "increase"}
\* the verbs the application issues here: the handled ones and one that
\* changeBurnerLevel has no case for ("take_control" takes the same default
\* branch as "decrease")
IssuedVerbs == {"set_to", "increase", "decrease"}
\* targets the application passes to command(); App.tsx 6 passes 10, and 110
\* lies above the command's max of 100
Targets == {0, 10, 110}
\* Math.random() in hundredths: a value of [0, 1)
RandomDraws == {0, 50, 99}
\* connectionRejectionPercentage: never, the default (index.ts 129), always
RejectionPercentages == {0, 50, 100}
\* the reading getNewMeasure returns (getRandomArbitrary(0, 1000), index.ts
\* 347): one sample of the range, since nothing reads the free measures
NewMeasures == {500}
\* burner levels and retry counts of the arbitrary device states of
\* SpecAnyState
AnyLevels == {0, 10, 20}
AnyValues == {0, 10}
AnyRetries == {0, 1}

\* what a parameter left out of a call holds (retryCommand calls command())
Undefined == "undefined"
\* lastCommand.verb / .target before the first command, index.ts 67-68
Null == "null"

VARIABLES
    state,            \* the driver's state proxy (IState), index.ts 35-81
    params,           \* the driver's params proxy (IParams), index.ts 126-164
    updateCycleLive,  \* the interval whose id updateCycleId holds is running
    orphanIntervals,  \* running intervals whose id updateCycleId no longer holds
    reconnectTimers,  \* pending setTimeout(connect, 1000) callbacks
    pendingAttempts,  \* connect() calls of the application suspended at their
                      \* await, oldest first: TRUE when createConnection resolved
    lastOp,           \* history: the operation that ran last
    chain,            \* history: the current chain of connection attempts
    retryInvocations, \* history: how many times retryCommand has run
    valueAtLastTick,  \* history: <<the burner level when the last tick ended>>,
                      \* <<>> before the first tick
    disconnectCalled  \* history: the application called disconnect() and has
                      \* not called connect() since

vars == <<state, params, updateCycleLive, orphanIntervals, reconnectTimers,
          pendingAttempts, lastOp, chain, retryInvocations, valueAtLastTick, disconnectCalled>>

(***************************************************************************)
(* The state proxy.  byId.burnerLevel of measures and of commands are      *)
(* flattened into one record; the fields that nothing writes (type,        *)
(* hasTarget, linkedMeasure, min, max, frequencyCycleCounter,              *)
(* supportedVerbs) are left out.                                           *)
(***************************************************************************)
initialState ==
    [ beanTemperature   |-> 0,
      airTemperature    |-> 0,
      value             |-> 0,
      targetValue       |-> 0,
      previousValue     |-> 0,
      issuingCommand    |-> FALSE,
      lastCommand       |-> [verb |-> Null, target |-> Null],
      retriesCounter    |-> 0,
      connected         |-> FALSE,
      failedConnections |-> 0 ]

\* the params a driver can be constructed with (existingParams, index.ts 162)
ParamChoices ==
    { p \in [ connectionRejectionPercentage : RejectionPercentages,
              maxReconnectionAttempts       : {0, 1, MaxReconnectionAttemptsBound},
              commandRetryLimited           : BOOLEAN,
              maxNumberOfRetries            : {0, MaxNumberOfRetriesBound} ] :
        \* maxNumberOfRetries is not read when commandRetryLimited is false
        p.commandRetryLimited \/ p.maxNumberOfRetries = 0 }

\* defaultParams, index.ts 126-160, with maxNumberOfRetries (10 there) drawn
\* from the model's range
defaultConnectionRejectionPercentage == 50
defaultMaxReconnectionAttempts == 0

\* min and max declared by the burnerLevel command
burnerLevelMin == 0
burnerLevelMax == 100

Abs(x) == IF x < 0 THEN -x ELSE x

(***************************************************************************)
(* RetryPolicy: abstractDriver.ts                                          *)
(***************************************************************************)
\* variant: a strict comparison, so that an unchanged distance counts as progress
progressionStrictlyLost(s) ==
    Abs(s.value - s.targetValue) > Abs(s.previousValue - s.targetValue)

progressionNotObserved(s) ==
    LET currentDistance  == s.value - s.targetValue
        previousDistance == s.previousValue - s.targetValue
    IN  Abs(currentDistance) >= Abs(previousDistance)

\* variant: the budget test compares against maxNumberOfRetries + 1
canRetryCommandOneMore(s, p) ==
    \/ (p.commandRetryLimited /\ s.retriesCounter <= p.maxNumberOfRetries + 1)
    \/ ~p.commandRetryLimited

canRetryCommand(s, p) ==
    \/ (p.commandRetryLimited /\ s.retriesCounter <= p.maxNumberOfRetries)
    \/ ~p.commandRetryLimited

\* variant: the outstanding-command condition is left out
shouldRetryCommandWhenIdle(s, p) ==
    progressionNotObserved(s) /\ canRetryCommand(s, p)

shouldRetryCommand(s, p) ==
    LET requestedTargetChange == s.issuingCommand
    IN  requestedTargetChange /\ progressionNotObserved(s) /\ canRetryCommand(s, p)

(***************************************************************************)
(* CommandController: index.ts 206-241, 281-296, 339-344                   *)
(***************************************************************************)
changeBurnerLevelTo(s, target) == [s EXCEPT !.targetValue = target]

\* variant: "increase" takes the target as absolute, like "set_to"
changeBurnerLevelAbsolute(s, verb, target) ==
    CASE verb = "set_to"   -> changeBurnerLevelTo(s, target)
      [] verb = "increase" -> changeBurnerLevelTo(s, target)
      [] OTHER             -> s

changeBurnerLevel(s, verb, target) ==
    CASE verb = "set_to"   -> changeBurnerLevelTo(s, target)
      [] verb = "increase" -> changeBurnerLevelTo(s, s.value + target)
      [] OTHER             -> s

\* variant: a new command starts with a retry count of zero
commandSetupFreshCount(s, verb, target) ==
    [s EXCEPT !.issuingCommand = TRUE,
              !.lastCommand    = [verb |-> verb, target |-> target],
              !.previousValue  = s.value,
              !.targetValue    = target,
              !.retriesCounter = 0]

\* variant: the snapshot taken by command() is of the target, not of the value
commandSetupSnapshotsTarget(s, verb, target) ==
    [s EXCEPT !.issuingCommand = TRUE,
              !.lastCommand    = [verb |-> verb, target |-> target],
              !.previousValue  = s.targetValue,
              !.targetValue    = target]

commandSetup(s, verb, target) ==
    [s EXCEPT !.issuingCommand = TRUE,
              !.lastCommand    = [verb |-> verb, target |-> target],
              !.previousValue  = s.value,
              !.targetValue    = target]

command(s, verb, target) ==
    changeBurnerLevel(commandSetup(s, verb, target), verb, target)

\* the arguments retryCommand passes to the command's behaviour: the call
\* is command(), without arguments (index.ts 340)
retryCommandArguments(s) == [verb |-> Undefined, target |-> Undefined]

retryCommand(s) ==
    LET args == retryCommandArguments(s)
        s1   == changeBurnerLevel(s, args.verb, args.target)
    IN  [s1 EXCEPT !.retriesCounter = @ + 1,
                   !.previousValue  = s1.value]

converged(s) ==
    /\ 100 * Abs(s.value - s.targetValue) <= s.value
    /\ s.issuingCommand

\* variant: the convergence test runs before the retry decision
checkCommandConvergenceFirst(s, p) ==
    LET s1 == IF converged(s) THEN [s EXCEPT !.issuingCommand = FALSE] ELSE s
    IN  IF shouldRetryCommand(s1, p) THEN retryCommand(s1) ELSE s1

checkCommand(s, p) ==
    LET s1 == IF shouldRetryCommand(s, p) THEN retryCommand(s) ELSE s
    IN  IF converged(s1) THEN [s1 EXCEPT !.issuingCommand = FALSE] ELSE s1

\* one step of moveBurnerLevel's loop towards endLevel (index.ts 251-261),
\* in half units: value and endLevel are doubled, the increment is +-1 and
\* endLevel * 0.95 is compared after multiplying by 100.  Unused: the
\* repository never calls moveBurnerLevel.
moveBurnerLevelStep(value2, endLevel2, increment2) ==
    IF \/ (increment2 > 0 /\ 100 * value2 < 95 * endLevel2)
       \/ (increment2 < 0 /\ 100 * value2 > 95 * endLevel2)
    THEN value2 + increment2
    ELSE value2

(***************************************************************************)
(* SamplingScheduler: the setInterval callback of startUpdateCycle,        *)
(* index.ts 322-336                                                        *)
(***************************************************************************)
updateCycle(s, p, bean, air) ==
    LET s1 == [s EXCEPT !.beanTemperature = bean, !.airTemperature = air]
        s2 == checkCommand(s1, p)
    IN  [s2 EXCEPT !.previousValue = s2.value]

(***************************************************************************)
(* ConnectionManager: index.ts 176-204, 301-316                            *)
(***************************************************************************)
\* createConnection: TRUE when the promise resolves, FALSE when it rejects
createConnection(randomNumber, rejectionPercentage) ==
    ~(randomNumber < rejectionPercentage)

\* variant: the success branch resets the counter but leaves connected as it is
connectSucceededNoFlag(s) == [s EXCEPT !.failedConnections = 0]

\* variant: a successful connection starts the command bookkeeping afresh
connectSucceededFresh(s) ==
    [s EXCEPT !.failedConnections = 0, !.connected = TRUE,
              !.retriesCounter = 0, !.issuingCommand = FALSE]

\* variant: the try branch leaves the failure count as it was
connectSucceededKeepsCount(s) == [s EXCEPT !.connected = TRUE]

connectSucceeded(s) == [s EXCEPT !.failedConnections = 0, !.connected = TRUE]

\* variant: the catch branch does not count the failure
connectFailedUncounted(s) == [s EXCEPT !.connected = FALSE]

connectFailed(s) == [s EXCEPT !.failedConnections = @ + 1, !.connected = FALSE]

\* the condition under which the catch branch calls setTimeout(connect)
\* variant: the limit is compared with >=, allowing one attempt more
shouldReconnectOneMore(s, p) ==
    \/ p.maxReconnectionAttempts = 0
    \/ p.maxReconnectionAttempts >= s.failedConnections

shouldReconnect(s, p) ==
    \/ p.maxReconnectionAttempts = 0
    \/ p.maxReconnectionAttempts > s.failedConnections

\* variant: disconnect() also abandons the outstanding command
disconnectedAbandoning(s) == [s EXCEPT !.connected = FALSE, !.issuingCommand = FALSE]

disconnected(s) == [s EXCEPT !.connected = FALSE]

(***************************************************************************)
(* History variables                                                       *)
(***************************************************************************)
\* lastOp: the operation, the verb and target of a command() call and
\* whether a command was outstanding when it was made, whether a connection
\* attempt was accepted, whether a tick called retryCommand
Op(name, verb, target, wasIssuing, accepted, retried) ==
    [op |-> name, verb |-> verb, target |-> target, wasIssuing |-> wasIssuing,
     accepted |-> accepted, retried |-> retried]

\* chain.clean: the pending attempts all stem from one connect() call that
\* the application made with failedConnections = 0 and no reconnect timer
\* pending, and none of them was accepted; chain.attempts counts them
NoChain == [clean |-> FALSE, attempts |-> 0]

(***************************************************************************)
(* Actions                                                                 *)
(***************************************************************************)
\* a connection attempt can be taken within the caps of the counters
AttemptWithinCaps(ok, intervalsBefore, failuresBefore) ==
    IF ok THEN intervalsBefore <= MaxOrphanIntervals
          ELSE failuresBefore < FailedConnectionsCap

\* the number of pending attempts with the given outcome
RECURSIVE PendingWith(_, _)
PendingWith(pending, ok) ==
    IF pending = <<>> THEN 0
    ELSE (IF Head(pending) = ok THEN 1 ELSE 0) + PendingWith(Tail(pending), ok)

\* what connect() does once createConnection has settled: the try branch
\* after the await when it resolved (ok), the catch branch when it rejected
Attempt(name, ok, timersLeft, chainNow) ==
    IF ok
    THEN /\ state' = connectSucceeded(state)
         \* startUpdateCycle: updateCycleId = setInterval(...)
         /\ orphanIntervals' = orphanIntervals + (IF updateCycleLive THEN 1 ELSE 0)
         /\ updateCycleLive' = TRUE
         /\ reconnectTimers' = timersLeft
         /\ chain' = NoChain
         /\ lastOp' = Op(name, Undefined, Undefined, FALSE, TRUE, FALSE)
    ELSE /\ state' = connectFailed(state)
         /\ reconnectTimers' =
                timersLeft + (IF shouldReconnect(state', params) THEN 1 ELSE 0)
         /\ chain' = IF chainNow.clean
                     THEN [chainNow EXCEPT !.attempts = @ + 1]
                     ELSE NoChain
         /\ lastOp' = Op(name, Undefined, Undefined, FALSE, FALSE, FALSE)
         /\ UNCHANGED <<updateCycleLive, orphanIntervals>>

\* the application calls connect(): createConnection draws and settles, and
\* connect() is suspended at its await
Connect ==
    /\ Len(pendingAttempts) < MaxPendingAttempts
    /\ reconnectTimers + Len(pendingAttempts) < MaxPendingReconnects
    /\ \E randomNumber \in RandomDraws :
         LET ok == createConnection(randomNumber, params.connectionRejectionPercentage)
         IN  /\ AttemptWithinCaps(ok,
                    orphanIntervals + PendingWith(pendingAttempts, TRUE)
                        + (IF updateCycleLive THEN 1 ELSE 0),
                    state.failedConnections + PendingWith(pendingAttempts, FALSE))
             /\ pendingAttempts' = Append(pendingAttempts, ok)
    /\ lastOp' = Op("connect_called", Undefined, Undefined, FALSE, FALSE, FALSE)
    /\ disconnectCalled' = FALSE
    /\ UNCHANGED <<state, params, updateCycleLive, orphanIntervals, reconnectTimers,
                   chain, retryInvocations, valueAtLastTick>>

\* the oldest suspended connect() resumes after its await
ConnectSettles ==
    /\ pendingAttempts # <<>>
    /\ Attempt("connect", Head(pendingAttempts), reconnectTimers,
               [clean    |-> /\ reconnectTimers = 0
                             /\ state.failedConnections = 0
                             /\ Len(pendingAttempts) = 1,
                attempts |-> 0])
    /\ pendingAttempts' = Tail(pendingAttempts)
    /\ UNCHANGED <<params, retryInvocations, valueAtLastTick, disconnectCalled>>

\* a setTimeout(connect, 1000) callback fires: the attempt it makes is over
\* before anything else runs
Reconnect ==
    /\ reconnectTimers > 0
    /\ pendingAttempts = <<>>
    /\ \E randomNumber \in RandomDraws :
         LET ok == createConnection(randomNumber, params.connectionRejectionPercentage)
         IN  /\ AttemptWithinCaps(ok,
                    orphanIntervals + (IF updateCycleLive THEN 1 ELSE 0),
                    state.failedConnections)
             /\ Attempt("reconnect", ok, reconnectTimers - 1, chain)
    /\ UNCHANGED <<params, pendingAttempts, retryInvocations, valueAtLastTick,
                   disconnectCalled>>

\* the application calls disconnect()
Disconnect ==
    /\ state' = disconnected(state)
    \* clearInterval(updateCycleId)
    /\ updateCycleLive' = FALSE
    /\ lastOp' = Op("disconnect", Undefined, Undefined, FALSE, FALSE, FALSE)
    /\ disconnectCalled' = TRUE
    /\ UNCHANGED <<params, orphanIntervals, reconnectTimers, pendingAttempts, chain,
                   retryInvocations, valueAtLastTick>>

\* the application calls command("burnerLevel", verb, target)
Command ==
    \E verb \in IssuedVerbs, target \in Targets :
        /\ state' = command(state, verb, target)
        /\ lastOp' = Op("command", verb, target, state.issuingCommand, FALSE, FALSE)
        /\ UNCHANGED <<params, updateCycleLive, orphanIntervals, reconnectTimers,
                       pendingAttempts, chain, retryInvocations, valueAtLastTick,
                       disconnectCalled>>

\* a running interval fires its callback
Tick ==
    /\ updateCycleLive \/ orphanIntervals > 0
    /\ pendingAttempts = <<>>
    /\ shouldRetryCommand(state, params) => state.retriesCounter < RetriesCounterCap
    /\ \E bean \in NewMeasures, air \in NewMeasures :
         state' = updateCycle(state, params, bean, air)
    /\ lastOp' = Op("tick", Undefined, Undefined, FALSE, FALSE,
                    shouldRetryCommand(state, params))
    /\ retryInvocations' =
           retryInvocations + (IF shouldRetryCommand(state, params) THEN 1 ELSE 0)
    /\ valueAtLastTick' = <<state'.value>>
    /\ UNCHANGED <<params, updateCycleLive, orphanIntervals, reconnectTimers,
                   pendingAttempts, chain, disconnectCalled>>

Next == Connect \/ ConnectSettles \/ Reconnect \/ Disconnect \/ Command \/ Tick

(***************************************************************************)
(* Specifications                                                          *)
(***************************************************************************)
InitTimers ==
    /\ updateCycleLive = FALSE
    /\ orphanIntervals = 0
    /\ reconnectTimers = 0
    /\ pendingAttempts = <<>>
    /\ lastOp = Op("init", Undefined, Undefined, FALSE, FALSE, FALSE)
    /\ chain = NoChain
    /\ valueAtLastTick = <<>>
    /\ disconnectCalled = FALSE

\* the driver as constructed, with any parameters
Init ==
    /\ state = initialState
    /\ params \in ParamChoices
    /\ InitTimers
    /\ retryInvocations = 0

Spec == Init /\ [][Next]_vars

\* ticks keep firing while an interval runs (setInterval), and a suspended
\* connect() resumes (the microtask queue is drained)
FairSpec == Spec /\ WF_vars(Tick) /\ WF_vars(ConnectSettles)

\* the driver with its burner level, target, previous level and command
\* bookkeeping in any state, under the default connection parameters: the
\* states on which the command functions are checked as functions
InitAnyState ==
    /\ \E v \in AnyValues, t \in AnyLevels, pv \in AnyLevels, i \in BOOLEAN,
          rc \in AnyRetries :
         state = [initialState EXCEPT !.value = v, !.targetValue = t,
                                      !.previousValue = pv, !.issuingCommand = i,
                                      !.retriesCounter = rc]
    /\ params \in { p \in ParamChoices :
                      /\ p.connectionRejectionPercentage = defaultConnectionRejectionPercentage
                      /\ p.maxReconnectionAttempts = defaultMaxReconnectionAttempts }
    /\ InitTimers
    /\ retryInvocations = state.retriesCounter

SpecAnyState == InitAnyState /\ [][Next]_vars

(***************************************************************************)
(* Claims                                                                  *)
(***************************************************************************)
IsAttempt(op) == op.op \in {"connect", "reconnect"}

\* the state right after command("burnerLevel", "increase", 10) was called on
\* a connected driver whose burner level is 0 and that had no command
\* outstanding, with the sampling interval running and limited retries
ScenarioIssued ==
    /\ lastOp = Op("command", "increase", 10, FALSE, FALSE, FALSE)
    /\ state.connected /\ updateCycleLive
    /\ orphanIntervals = 0 /\ reconnectTimers = 0
    /\ state.value = 0
    /\ params.commandRetryLimited

\* the application made a call after the scenario's command
ScenarioInterrupted ==
    \/ IsAttempt(lastOp)
    \/ lastOp.op = "connect_called"
    \/ lastOp.op = "disconnect"
    \/ (lastOp.op = "command" /\ ~ScenarioIssued)

\* C1: with ticks firing fairly, the reference scenario (connected, value 0,
\* no command outstanding, then command("burnerLevel", "increase", 10)) leads
\* to issuingCommand = false, unless the application makes another call.
C1_ScenarioConverges ==
    ScenarioIssued ~> (~state.issuingCommand \/ ScenarioInterrupted)

\* C2: right after command(c, verb, t) with a handled verb: issuingCommand is
\* true, lastCommand is {verb, t}, previousValue equals the measure's value,
\* targetValue is t for "set_to" and (value at call time + t) for "increase",
\* and value and retriesCounter are what they were before the call.
C2_CommandEffect ==
    [][ (lastOp'.op = "command" /\ lastOp'.verb \in HandledVerbs) =>
          /\ state'.issuingCommand
          /\ state'.lastCommand = [verb |-> lastOp'.verb, target |-> lastOp'.target]
          /\ state'.previousValue = state'.value
          /\ state'.targetValue =
                IF lastOp'.verb = "set_to" THEN lastOp'.target
                ELSE state.value + lastOp'.target
          /\ state'.value = state.value
          /\ state'.retriesCounter = state.retriesCounter
      ]_vars

\* an "increase" was issued at a non-zero level by a non-zero amount
C2_Witness ==
    /\ lastOp.op = "command" /\ lastOp.verb = "increase"
    /\ lastOp.target # 0 /\ state.value # 0
    /\ state.targetValue = state.value + lastOp.target
    /\ state.retriesCounter > 0

\* C3: command(c, verb, t) with a verb changeBurnerLevel has no case for
\* leaves issuingCommand, lastCommand, targetValue, previousValue, value and
\* retriesCounter as they were.
C3_UnhandledVerbIsNoOp ==
    [][ (lastOp'.op = "command" /\ lastOp'.verb \notin HandledVerbs) =>
          /\ state'.issuingCommand = state.issuingCommand
          /\ state'.lastCommand = state.lastCommand
          /\ state'.targetValue = state.targetValue
          /\ state'.previousValue = state.previousValue
          /\ state'.value = state.value
          /\ state'.retriesCounter = state.retriesCounter
      ]_vars

\* C4: with commandRetryLimited and maxNumberOfRetries = M, retryCommand has
\* run at most M + 1 times and retriesCounter is at most M + 1; with M = 0,
\* shouldRetryCommand is false in every state with retriesCounter >= 1.
C4_RetryBudget ==
    params.commandRetryLimited =>
        /\ retryInvocations <= params.maxNumberOfRetries + 1
        /\ state.retriesCounter <= params.maxNumberOfRetries + 1
        /\ (params.maxNumberOfRetries = 0 /\ state.retriesCounter >= 1)
              => ~shouldRetryCommand(state, params)

\* the budget is used up: M + 1 retries ran, a command is still outstanding
\* and no progress is seen
C4_Witness ==
    /\ params.commandRetryLimited
    /\ retryInvocations = params.maxNumberOfRetries + 1
    /\ state.retriesCounter = params.maxNumberOfRetries + 1
    /\ state.issuingCommand /\ progressionNotObserved(state)
    /\ lastOp.op = "tick" /\ ~lastOp.retried

\* C5: shouldRetryCommand is true exactly when a command is outstanding, the
\* distance to the target did not shrink (|value - targetValue| >=
\* |previousValue - targetValue|) and the budget allows it
\* (commandRetryLimited = false or retriesCounter <= maxNumberOfRetries).
C5_ShouldRetryExactly ==
    shouldRetryCommand(state, params) <=>
        /\ state.issuingCommand = TRUE
        /\ Abs(state.value - state.targetValue) >=
               Abs(state.previousValue - state.targetValue)
        /\ (params.commandRetryLimited = FALSE
              \/ state.retriesCounter <= params.maxNumberOfRetries)

\* the boundary: the distance is the same as before although the level moved
C5_Witness ==
    /\ shouldRetryCommand(state, params)
    /\ state.value # state.previousValue
    /\ Abs(state.value - state.targetValue) =
           Abs(state.previousValue - state.targetValue)
    /\ params.commandRetryLimited
    /\ state.retriesCounter = params.maxNumberOfRetries

\* C6: a sampling tick runs only in states where connected = true.
C6_TickOnlyWhenConnected ==
    [][ lastOp'.op = "tick" => state.connected ]_vars

\* C7: after one connect() call made with failedConnections = 0 and no
\* attempt pending, as long as every attempt was rejected: the attempts made
\* are failedConnections in number and connected is false; with
\* maxReconnectionAttempts = N > 0 there are at most N of them, one more is
\* scheduled while they are fewer than N and none once they are N; with
\* N = 0 one more is scheduled after every failed attempt.
C7_ReconnectionBounded ==
    /\ chain.clean =>
          /\ chain.attempts = state.failedConnections
          /\ ~state.connected
          /\ params.maxReconnectionAttempts > 0 =>
                /\ chain.attempts <= params.maxReconnectionAttempts
                /\ reconnectTimers =
                      IF chain.attempts < params.maxReconnectionAttempts THEN 1 ELSE 0
          /\ params.maxReconnectionAttempts = 0 => reconnectTimers = 1
    \* N = 0, any failed attempt (whatever else is pending): one is scheduled
    /\ (params.maxReconnectionAttempts = 0 /\ IsAttempt(lastOp) /\ ~lastOp.accepted)
          => reconnectTimers >= 1

\* the chain ended: N > 1 attempts were rejected and no timer is pending
C7_Witness ==
    /\ chain.clean
    /\ params.maxReconnectionAttempts > 1
    /\ chain.attempts = params.maxReconnectionAttempts
    /\ state.failedConnections = params.maxReconnectionAttempts
    /\ reconnectTimers = 0
    /\ lastOp.op = "reconnect"

\* C8: with connectionRejectionPercentage = 100 the driver is never
\* connected and no interval is ever started, and every attempt, by the
\* application or by a timer, raises failedConnections by exactly one.
C8_AlwaysRejected ==
    /\ [](params.connectionRejectionPercentage = 100 =>
            /\ ~state.connected
            /\ ~updateCycleLive
            /\ orphanIntervals = 0)
    /\ [][ (params.connectionRejectionPercentage = 100 /\ IsAttempt(lastOp')) =>
             /\ ~lastOp'.accepted
             /\ state'.failedConnections = state.failedConnections + 1
             /\ ~state'.connected
         ]_vars

\* a timer's attempt was rejected after earlier rejections
C8_Witness ==
    /\ params.connectionRejectionPercentage = 100
    /\ lastOp.op = "reconnect"
    /\ state.failedConnections >= 2

\* C9: with connectionRejectionPercentage = 0, right after any connect()
\* attempt: connected is true, failedConnections is 0, the sampling interval
\* is running and no reconnect attempt is scheduled.
C9_AlwaysAccepted ==
    (params.connectionRejectionPercentage = 0 /\ IsAttempt(lastOp)) =>
        /\ lastOp.accepted
        /\ state.connected
        /\ state.failedConnections = 0
        /\ updateCycleLive
        /\ reconnectTimers = 0

\* connect() was called on a driver that was already connected
C9_Witness ==
    /\ params.connectionRejectionPercentage = 0
    /\ lastOp.op = "connect"
    /\ state.connected
    /\ orphanIntervals > 0

\* C10: a tick's checkCommand made while issuingCommand is false does not
\* call retryCommand and leaves retriesCounter, issuingCommand, targetValue
\* and value as they were.
C10_CheckCommandIdle ==
    [][ (lastOp'.op = "tick" /\ ~state.issuingCommand) =>
          /\ ~lastOp'.retried
          /\ retryInvocations' = retryInvocations
          /\ state'.retriesCounter = state.retriesCounter
          /\ state'.issuingCommand = state.issuingCommand
          /\ state'.targetValue = state.targetValue
          /\ state'.value = state.value
      ]_vars

\* a tick ran on an idle command that is away from its target, shows no
\* progress and has budget left: only issuingCommand = false kept it from
\* retrying (not converged, so the command was idle before the tick too)
C10_Witness ==
    /\ lastOp.op = "tick" /\ ~lastOp.retried
    /\ ~state.issuingCommand
    /\ 100 * Abs(state.value - state.targetValue) > state.value
    /\ progressionNotObserved(state)
    /\ canRetryCommand(state, params)

\* C11: neither disconnect() nor a connect() attempt (accepted or rejected,
\* made by the application or by a reconnect timer) changes retriesCounter,
\* the burner level's value, targetValue, issuingCommand or lastCommand.
C11_ConnectionKeepsCommandHistory ==
    [][ (IsAttempt(lastOp') \/ lastOp'.op = "disconnect") =>
          /\ state'.retriesCounter = state.retriesCounter
          /\ state'.value = state.value
          /\ state'.targetValue = state.targetValue
          /\ state'.issuingCommand = state.issuingCommand
          /\ state'.lastCommand = state.lastCommand
      ]_vars

\* connect() was accepted on a disconnected driver that had been connected
\* before (a tick has run), with retries counted, a non-zero level and a
\* command outstanding
C11_Witness ==
    /\ lastOp.op = "connect" /\ lastOp.accepted
    /\ orphanIntervals = 0
    /\ state.beanTemperature # 0
    /\ state.retriesCounter > 0
    /\ state.value # 0
    /\ state.issuingCommand
    /\ state.lastCommand.verb # Null

\* C12: no step lowers retriesCounter: command(), ticks (checkCommand,
\* retryCommand), connection attempts and disconnect() leave it or raise it.
C12_RetriesCounterMonotonic ==
    [][ state'.retriesCounter >= state.retriesCounter ]_vars

\* a new command was issued while retries of earlier commands are counted
C12_Witness ==
    /\ lastOp.op = "command"
    /\ state.retriesCounter > 0
    /\ retryInvocations = state.retriesCounter

\* C13: a tick's retryCommand calls the command's behaviour with the verb
\* and target recorded in lastCommand, raises retriesCounter by exactly one
\* and leaves previousValue equal to the burner level's value.
C13_RetryReusesLastCommand ==
    [][ (lastOp'.op = "tick" /\ lastOp'.retried) =>
          /\ retryCommandArguments(state) = state.lastCommand
          /\ state'.retriesCounter = state.retriesCounter + 1
          /\ state'.previousValue = state'.value
      ]_vars

\* the convergence test of checkCommand on the burner level
WithinTolerance(s) == 100 * Abs(s.value - s.targetValue) <= s.value

\* C15: issuingCommand goes from true to false only in a tick's
\* checkCommand, and only when |value - targetValue| <= 0.01 * value holds;
\* a tick clears it whenever that holds.  With the retry budget used up
\* (commandRetryLimited, retriesCounter > maxNumberOfRetries) a tick calls
\* retryCommand no more, and issuingCommand stays true while the test fails.
C15_OnlyConvergenceClears ==
    /\ [][ (state.issuingCommand /\ ~state'.issuingCommand) =>
             (lastOp'.op = "tick" /\ WithinTolerance(state)) ]_vars
    /\ [][ (lastOp'.op = "tick" /\ state.issuingCommand) =>
             (state'.issuingCommand <=> ~WithinTolerance(state)) ]_vars
    /\ [][ (/\ lastOp'.op = "tick"
            /\ state.issuingCommand
            /\ params.commandRetryLimited
            /\ state.retriesCounter > params.maxNumberOfRetries) =>
             /\ ~lastOp'.retried
             /\ state'.retriesCounter = state.retriesCounter
             /\ retryInvocations' = retryInvocations ]_vars

\* the stalled command: budget used up, a tick has run without retrying, the
\* level is away from a non-zero target and the command is still outstanding
C15_Witness ==
    /\ params.commandRetryLimited
    /\ state.retriesCounter > params.maxNumberOfRetries
    /\ lastOp.op = "tick" /\ ~lastOp.retried
    /\ state.issuingCommand
    /\ state.value # 0 /\ ~WithinTolerance(state)

\* C16: when a tick starts (its checkCommand call) after an earlier tick,
\* previousValue equals the burner level as the earlier tick left it,
\* whatever command() calls and connection steps came between; the retry
\* decision of the tick is the one taken against that value, although
\* retryCommand overwrites previousValue within the same tick.
C16_PreviousValueIsPriorTick ==
    [][ (lastOp'.op = "tick" /\ valueAtLastTick # <<>>) =>
          /\ state.previousValue = valueAtLastTick[1]
          /\ lastOp'.retried =
                shouldRetryCommand([state EXCEPT !.previousValue = valueAtLastTick[1]],
                                   params)
      ]_vars

\* a tick retried after an earlier tick had retried too
C16_Witness ==
    /\ lastOp.op = "tick" /\ lastOp.retried
    /\ state.retriesCounter >= 2
    /\ valueAtLastTick = <<state.value>>
    /\ state.lastCommand.verb # Null

\* C17: in a tick, the retry decision is taken on the state as the tick
\* found it and the convergence test comes after it: when both hold, the
\* same tick raises retriesCounter by one and clears issuingCommand.
C17_RetryThenConvergence ==
    [][ (/\ lastOp'.op = "tick"
         /\ shouldRetryCommand(state, params)
         /\ WithinTolerance(state)) =>
          /\ lastOp'.retried
          /\ state'.retriesCounter = state.retriesCounter + 1
          /\ ~state'.issuingCommand
      ]_vars

\* a tick that retried and left the command idle: both took effect in it
\* (the retry needs issuingCommand = true when the tick starts)
C17_Witness ==
    /\ lastOp.op = "tick" /\ lastOp.retried
    /\ ~state.issuingCommand
    /\ state.retriesCounter >= 1
    /\ state.lastCommand.target = state.value

\* C18: once disconnect() has been called, and until the application calls
\* connect() again, the driver is not connected and the sampling interval is
\* not running, even when a reconnect timer left by an earlier failed attempt
\* fires.
C18_DisconnectIsFinal ==
    disconnectCalled => (~state.connected /\ ~updateCycleLive)

\* C19: a connected driver has a failure count of zero, whatever the
\* interleaving of accepted and rejected attempts, reconnect timers and
\* disconnect().
C19_ConnectedMeansNoFailures ==
    state.connected => state.failedConnections = 0

\* a reconnect timer's attempt was accepted after a disconnect(), with a
\* further timer still pending
C19_Witness ==
    /\ lastOp.op = "reconnect"
    /\ lastOp.accepted
    /\ state.connected
    /\ disconnectCalled
    /\ reconnectTimers > 0

\* C20: the burner level's targetValue and value stay within the min and max
\* the burnerLevel command declares, after any sequence of commands.
C20_WithinDeclaredBounds ==
    /\ state.targetValue \in burnerLevelMin..burnerLevelMax
    /\ state.value \in burnerLevelMin..burnerLevelMax

====
